---- MODULE Spec2Model ----
(***************************************************************************)
(* Token Transaction Bot: the commands `monitor` (its poll loop) and       *)
(* `scan` (src/src/cli.py),                                                *)
(* the log fetch with retries `Web3Client.get_contract_events` and the     *)
(* swap classification `Web3Client.get_contract_swaps`                      *)
(* (src/src/web3_client.py).                                                *)
(*                                                                         *)
(* The specifications share the variables:                                 *)
(*   Spec        the monitor and scan commands;                            *)
(*   EventsSpec  one call of get_contract_events;                          *)
(*   SwapsSpec   one call of get_contract_swaps;                           *)
(*   NotifySpec  one call of Web3Client.print_swap_event_details or of     *)
(*               Notifier.notify (src/src/notifier.py,                     *)
(*               src/src/telegram_notifier.py);                            *)
(*   LoadSpec    calls of BaseScanClient.load_contract on one client       *)
(*               (src/src/basescan_client.py).                             *)
(***************************************************************************)
EXTENDS Integers, Sequences, FiniteSets, TLC

(***************************************************************************)
(* Bounds of the model.                                                    *)
(***************************************************************************)
\* Block numbers the node reports are 0..MaxBlock.
MaxBlock == 3
\* At most MaxItems raw logs are returned by one eth_getLogs call.
MaxItems == 2
\* At most MaxLogs Swap logs are returned to one get_contract_swaps call.
MaxLogs == 2
\* At most MaxCalls items are passed to the notification sink.
MaxCalls == 2
\* At most MaxLoads calls of load_contract on one BaseScanClient.
MaxLoads == 3

(***************************************************************************)
(* Program constants.                                                      *)
(***************************************************************************)
max_retries == 3
retry_delay_base == 2
DefaultSpan == 1000
\* Python's None for an optional block argument.
NoBlock == -1

Blocks == 0..MaxBlock
OptBlocks == Blocks \cup {NoBlock}
\* Readings of w3.eth.block_number in a call without a poll loop around it:
\* a young chain, or one longer than the default span.
Heads == Blocks \cup {DefaultSpan + b : b \in Blocks}

Max(a, b) == IF a >= b THEN a ELSE b

VARIABLES
    \* ---- monitor (cli.py) ----
    pc,              \* position in monitor
    last_block,      \* cli.py:51, 79
    current_block,   \* cli.py:55
    transfer_events, \* cli.py:57
    swap_events,     \* cli.py:72
    idx,             \* number of items of the running for loop already iterated
    windows,         \* history: the windows the cycles fetched, in order
    swap_win,        \* history: the window of this cycle's get_contract_swaps call
    delivered,       \* history: items of this cycle handed to the sink
    pos_before,      \* history: last_block when the cycle started
    has_swap_event,  \* hasattr(contract.events, "Swap") of the contract of cli.py:41
    error,           \* the exception that left monitor, or NoError
    command,         \* the command invoked: "monitor" or "scan"
    cli_output,      \* history: the lines the command's preamble and handlers echoed
    abi_loads,       \* history: calls of load_contract by the command (cli.py:41, 117)
    scan_activity,   \* history: what scan did after its preamble
    \* ---- get_contract_events (web3_client.py:42-89) ----
    epc,             \* position in get_contract_events
    caller,          \* who called it
    given,           \* history: the arguments <<from_block, to_block>> as passed
    from_block, to_block,
    attempt,         \* loop variable of `for attempt in range(max_retries)`
    retry_delay,
    slept,           \* history: the time.sleep durations of this call
    outcomes,        \* history: how each get_logs call of this call ended
    events,          \* the returned list
    e_error,         \* the exception raised by the call, or NoError
    \* ---- get_contract_swaps (web3_client.py:109-256) ----
    spc,             \* position in get_contract_swaps
    meta,            \* token names, decimals, WETH flags (lines 135-150)
    s_range,         \* <<from_block, to_block>> after the defaults (lines 124-126)
    logs_in,         \* history: the Swap logs iterated so far
    swaps,           \* the list being built (line 163)
    s_error,         \* the exception raised by the call, or NoError
    meta_loads,      \* history: calls of load_contract(token0_address) (line 139)
    \* ---- print_swap_event_details (web3_client.py:258-304), Notifier (notifier.py) ----
    npc,             \* position in the operation
    calls,           \* history: number of operations started
    operation,       \* which operation runs
    n_event,         \* its argument
    message,         \* the formatted message
    console,         \* history: what was written to the console
    sent,            \* history: the messages the Telegram channel received
    sink_failure,    \* history: what failed in the sink, or "none"
    n_error,         \* the exception that left the operation, or NoError
    \* ---- BaseScanClient.load_contract (basescan_client.py:51-61) ----
    lpc,              \* position in load_contract
    loads,            \* history: number of calls started
    contract_address, \* self.contract_address
    contract_abi,     \* self.contract_abi
    answer,           \* history: what the explorer did in this call
    l_result,         \* the contract instance returned
    l_error,          \* the exception that left the call, or NoLoadError
    last_good         \* history: the two fields after the last successful call

preamble_vars == <<command, cli_output, abi_loads, scan_activity>>
monitor_vars == <<pc, last_block, current_block, transfer_events, swap_events, idx,
                  windows, swap_win, delivered, pos_before, has_swap_event, error,
                  preamble_vars>>
events_vars == <<epc, caller, given, from_block, to_block, attempt, retry_delay, slept,
                 outcomes, events, e_error>>
swaps_call_vars == <<spc, meta, s_range, logs_in, swaps, s_error>>
swaps_vars == <<swaps_call_vars, meta_loads>>
notify_vars == <<npc, calls, operation, n_event, message, console, sent, sink_failure, n_error>>
load_vars == <<lpc, loads, contract_address, contract_abi, answer, l_result, l_error, last_good>>
vars == <<monitor_vars, events_vars, swaps_vars, notify_vars, load_vars>>

NoError == [type |-> "none", status |-> 0, at |-> "nowhere"]
Exc(t) == [type |-> t, status |-> 0, at |-> "nowhere"]
HTTPError(s) == [type |-> "HTTPError", status |-> s, at |-> "nowhere"]
\* The exception e as it leaves the call `where` of monitor.
RaisedAt(e, where) == [e EXCEPT !.at = where]

(***************************************************************************)
(* get_contract_events                                                     *)
(***************************************************************************)
\* Statuses an HTTPError of the provider may carry.
HttpStatuses == {404, 429, 500, 502, 503, 504}
Is5xx(s) == s >= 500 /\ s <= 599
\* In `outcomes`: get_logs answered, or raised an exception that is no HTTPError;
\* an HTTPError is recorded by its status.
Answered == 200
OtherFailure == 0

\* A raw log as eth_getLogs returns it for the range [from, to]: its number
\* of topic words, its block, and its transaction hash, which is the log's
\* position in the answer. The logs lie in the first MaxBlock + 1 blocks of
\* the range.
RawLogs(from, to) ==
    [topics : {2, 3}, tx : 1..MaxItems,
     blockNumber : {b \in from..to : b <= from + MaxBlock}]
\* eth_getLogs answers for the range [from, to]: logs of the range in chain
\* order (blocks ascending), the i-th with transaction i.
RawLogSeqs(from, to) ==
    UNION {{s \in [1..n -> RawLogs(from, to)] :
                /\ \A i \in 1..n : s[i].tx = i
                /\ \A i \in 1..(n - 1) : s[i].blockNumber <= s[i + 1].blockNumber}
           : n \in 0..MaxItems}

\* web3_client.py:67-76: the event dict built from one log.
EventOfLog(log) ==
    [transactionHash |-> log.tx, topics |-> log.topics, blockNumber |-> log.blockNumber]
\* web3_client.py:65-78
ProcessLogs(logs) == [i \in 1..Len(logs) |-> EventOfLog(logs[i])]

\* web3_client.py:47-54: the defaults of the range; r1 and r2 are the two
\* readings of w3.eth.block_number (lines 49 and 54).
ResolveFrom(from_arg, r1) == IF from_arg = NoBlock THEN Max(0, r1 - DefaultSpan) ELSE from_arg
ResolveTo(to_arg, r2) == IF to_arg = NoBlock THEN r2 ELSE to_arg

\* A variant that retries every 5xx status.
RetryableAny5xx(status) == Is5xx(status)
\* web3_client.py:81
Retryable(status) == status = 503
\* A variant that also sleeps and retries after the last attempt.
MayRetryOnLastAttempt(att) == att < max_retries
\* web3_client.py:82
MayRetry(att) == att < max_retries - 1
\* web3_client.py:85
NextDelay(d) == d * 2

\* web3_client.py:42-57: entry of the call with the arguments given.
EventsEnter(who, valid, from_arg, to_arg, r1, r2) ==
    /\ caller' = who
    /\ given' = <<from_arg, to_arg>>
    /\ outcomes' = <<>>
    /\ slept' = <<>>
    /\ events' = <<>>
    /\ IF ~valid
       THEN /\ epc' = "raised"
            /\ e_error' = Exc("ValueError")
            /\ UNCHANGED <<from_block, to_block, attempt, retry_delay>>
       ELSE /\ epc' = "attempt"
            /\ e_error' = NoError
            /\ from_block' = ResolveFrom(from_arg, r1)
            /\ to_block' = ResolveTo(to_arg, r2)
            /\ attempt' = 0
            /\ retry_delay' = retry_delay_base

\* The call runs: monitor, when it is the caller, waits for it at cli.py:57.
EventsRunning ==
    /\ epc = "attempt"
    /\ caller = "transfers" => pc = "in_transfers"
    /\ caller = "scan" => pc = "in_scan_transfers"

\* web3_client.py:62-78: get_logs answered; the events are built and returned.
EventsAttemptOk ==
    /\ EventsRunning
    /\ attempt < max_retries
    /\ \E logs \in RawLogSeqs(from_block, to_block) :
        /\ events' = ProcessLogs(logs)
        /\ epc' = "returned"
        /\ outcomes' = Append(outcomes, Answered)
    /\ UNCHANGED <<caller, given, from_block, to_block, attempt, retry_delay, slept, e_error>>
    /\ UNCHANGED <<monitor_vars, swaps_vars, notify_vars, load_vars>>

\* web3_client.py:80-87: get_logs raised HTTPError.
EventsAttemptHttpError ==
    /\ EventsRunning
    /\ attempt < max_retries
    /\ \E status \in HttpStatuses :
        /\ outcomes' = Append(outcomes, status)
        /\ IF Retryable(status) /\ MayRetry(attempt)
           THEN /\ slept' = Append(slept, retry_delay)
                /\ retry_delay' = NextDelay(retry_delay)
                /\ attempt' = attempt + 1
                /\ IF attempt + 1 < max_retries
                   THEN epc' = "attempt" /\ UNCHANGED events
                   ELSE epc' = "returned" /\ events' = <<>>   \* line 89
                /\ UNCHANGED e_error
           ELSE /\ epc' = "raised"
                /\ e_error' = HTTPError(status)
                /\ UNCHANGED <<slept, retry_delay, attempt, events>>
    /\ UNCHANGED <<caller, given, from_block, to_block>>
    /\ UNCHANGED <<monitor_vars, swaps_vars, notify_vars, load_vars>>

\* web3_client.py:62: get_logs raised something that is no HTTPError; no
\* except clause matches and the exception leaves the call.
EventsAttemptOtherError ==
    /\ EventsRunning
    /\ attempt < max_retries
    /\ outcomes' = Append(outcomes, OtherFailure)
    /\ epc' = "raised"
    /\ e_error' = Exc("ConnectionError")
    /\ UNCHANGED <<caller, given, from_block, to_block, attempt, retry_delay, slept, events>>
    /\ UNCHANGED <<monitor_vars, swaps_vars, notify_vars, load_vars>>

EventsIdle ==
    /\ epc = "idle" /\ caller = "nobody" /\ given = <<NoBlock, NoBlock>> /\ from_block = NoBlock /\ to_block = NoBlock
    /\ attempt = 0 /\ retry_delay = retry_delay_base /\ slept = <<>> /\ outcomes = <<>>
    /\ events = <<>> /\ e_error = NoError

\* A direct call of get_contract_events(contract_address, from_block, to_block).
EventsCall ==
    /\ epc = "idle"
    /\ \E valid \in BOOLEAN, f \in OptBlocks, t \in OptBlocks, r1 \in Heads, r2 \in Heads :
        /\ r1 <= r2    \* the chain head does not go back between lines 49 and 54
        /\ EventsEnter("direct", valid, f, t, r1, r2)
    /\ UNCHANGED <<monitor_vars, swaps_vars, notify_vars, load_vars>>


(***************************************************************************)
(* get_contract_transfers and print_transfer_event_details                 *)
(* (called by cli.py:57 and cli.py:70; the EventDecoder of the design).     *)
(***************************************************************************)
\* A variant whose DecodeError loses the transaction hash.
DecodeTransferLosesHash(event) ==
    IF event.topics = 3
    THEN [kind |-> "transfer", transactionHash |-> event.transactionHash,
          blockNumber |-> event.blockNumber]
    ELSE [kind |-> "error", transactionHash |-> 0]
\* decodeTransfer: a log of exactly 3 topic words decodes to a transfer, any
\* other to a DecodeError {txHash, reason} carrying the log's transaction hash.
DecodeTransfer(event) ==
    IF event.topics = 3
    THEN [kind |-> "transfer", transactionHash |-> event.transactionHash,
          blockNumber |-> event.blockNumber]
    ELSE [kind |-> "error", transactionHash |-> event.transactionHash]
DecodeTransfers(evs) == [i \in 1..Len(evs) |-> DecodeTransfer(evs[i])]
\* A TransferEvent carries blockNumber, a DecodeError does not.
HasBlockNumber(item) == item.kind = "transfer"

(***************************************************************************)
(* monitor (cli.py:28-82)                                                  *)
(***************************************************************************)
\* A variant that also fetches when the latest block equals the position.
ShouldFetchInclusive(cur, last) == cur >= last
\* cli.py:56
ShouldFetch(cur, last) == cur > last
\* A variant whose window starts at the position itself.
NextWindowOverlapping(last, cur) == <<last, cur>>
\* cli.py:57, 72: from_block=last_block + 1, to_block=current_block
NextWindow(last, cur) == <<last + 1, cur>>
NoWindow == <<NoBlock, NoBlock>>

\* What get_contract_swaps hands back to monitor for the range [from, to]:
\* swap dicts, which carry the block of their log (web3_client.py:239), and
\* error dicts, which do not (web3_client.py:249-253).
SwapItems(from, to) == [kind : {"swap"}, blockNumber : from..to] \cup [kind : {"error"}]
IsSwapDict(item) == item.kind = "swap"
\* The lists it may return: the swap dicts in the order of their logs.
SwapItemSeqs(from, to) ==
    UNION {{s \in [1..n -> SwapItems(from, to)] :
                \A i \in 1..n : \A j \in (i + 1)..n :
                    (IsSwapDict(s[i]) /\ IsSwapDict(s[j]))
                        => s[i].blockNumber <= s[j].blockNumber}
           : n \in 0..MaxItems}

\* Positions of the while loop's body, where KeyboardInterrupt is caught (cli.py:53-82).
LoopPcs == {"poll", "fetch_transfers", "in_transfers", "transfers_loop", "swaps_loop", "sleep"}

MonitorIdle ==
    /\ pc = "idle" /\ last_block = NoBlock /\ current_block = NoBlock
    /\ transfer_events = <<>> /\ swap_events = <<>> /\ idx = 0
    /\ windows = <<>> /\ swap_win = NoWindow /\ delivered = <<>>
    /\ pos_before = NoBlock /\ has_swap_event = FALSE /\ error = NoError
    /\ command = "none" /\ cli_output = <<>> /\ abi_loads = 0 /\ scan_activity = {}

Crash(e) == pc' = "crashed" /\ error' = e

\* cli.py:51: last_block = client.get_latest_block()
Start ==
    /\ pc = "init"
    /\ \E b \in Blocks :
        /\ last_block' = b
        /\ pos_before' = b
    /\ pc' = "poll"
    /\ UNCHANGED <<has_swap_event, current_block, transfer_events, swap_events, idx, windows, swap_win,
                   delivered, error>>
    /\ UNCHANGED <<events_vars, swaps_vars, notify_vars, load_vars>>
    /\ UNCHANGED preamble_vars

\* cli.py:51, 55: w3.eth.block_number raises; nothing in monitor catches it.
LatestBlockFails ==
    /\ pc \in {"init", "poll"}
    /\ Crash(RaisedAt(Exc("ConnectionError"), "get_latest_block"))
    /\ UNCHANGED <<has_swap_event, last_block, current_block, transfer_events, swap_events, idx, windows,
                   swap_win, delivered, pos_before>>
    /\ UNCHANGED <<events_vars, swaps_vars, notify_vars, load_vars>>
    /\ UNCHANGED preamble_vars

\* cli.py:55-56: a cycle starts: read the latest block and compare.
Poll ==
    /\ pc = "poll"
    /\ \E b \in Blocks :
        /\ current_block' = b
        /\ pc' = IF ShouldFetch(b, last_block) THEN "fetch_transfers" ELSE "sleep"
    /\ pos_before' = last_block
    /\ transfer_events' = <<>>
    /\ swap_events' = <<>>
    /\ idx' = 0
    /\ delivered' = <<>>
    /\ swap_win' = NoWindow
    /\ UNCHANGED <<has_swap_event, last_block, windows, error>>
    /\ UNCHANGED <<events_vars, swaps_vars, notify_vars, load_vars>>
    /\ UNCHANGED preamble_vars

\* cli.py:57: get_contract_transfers(contract, from_block=last_block + 1,
\* to_block=current_block) fetches the window's logs with get_contract_events.
FetchTransfers ==
    /\ pc = "fetch_transfers"
    /\ LET w == NextWindow(last_block, current_block)
       IN /\ windows' = Append(windows, w)
          /\ EventsEnter("transfers", TRUE, w[1], w[2], current_block, current_block)
    /\ pc' = "in_transfers"
    /\ UNCHANGED <<has_swap_event, last_block, current_block, transfer_events, swap_events, idx, swap_win,
                   delivered, pos_before, error>>
    /\ UNCHANGED <<swaps_vars, notify_vars, load_vars>>
    /\ UNCHANGED preamble_vars

\* cli.py:57-58: the fetch returned; the logs are decoded.
TransfersReturn ==
    /\ pc = "in_transfers"
    /\ caller = "transfers"
    /\ epc = "returned"
    /\ transfer_events' = DecodeTransfers(events)
    /\ idx' = 0
    /\ pc' = "transfers_loop"
    /\ UNCHANGED <<has_swap_event, last_block, current_block, swap_events, windows, swap_win, delivered,
                   pos_before, error>>
    /\ UNCHANGED <<events_vars, swaps_vars, notify_vars, load_vars>>
    /\ UNCHANGED preamble_vars

\* cli.py:57: the fetch raised; the while loop has no handler but KeyboardInterrupt's.
TransfersRaise ==
    /\ pc = "in_transfers"
    /\ caller = "transfers"
    /\ epc = "raised"
    /\ Crash(RaisedAt(e_error, "get_contract_transfers"))
    /\ UNCHANGED <<has_swap_event, last_block, current_block, transfer_events, swap_events, idx, windows,
                   swap_win, delivered, pos_before>>
    /\ UNCHANGED <<events_vars, swaps_vars, notify_vars, load_vars>>
    /\ UNCHANGED preamble_vars

\* cli.py:60-70: one iteration of the transfer loop.
TransferItem ==
    /\ pc = "transfers_loop"
    /\ idx < Len(transfer_events)
    /\ LET item == transfer_events[idx + 1]
       IN \E decimals_ok \in BOOLEAN, balances_ok \in BOOLEAN :
            IF ~decimals_ok
            THEN \* line 61: get_token_decimals raises ValueError
                 /\ Crash(RaisedAt(Exc("ValueError"), "get_token_decimals"))
                 /\ UNCHANGED <<idx, delivered>>
            ELSE IF ~HasBlockNumber(item)
            THEN \* lines 63, 67: "latest" - 1 raises TypeError
                 /\ Crash(RaisedAt(Exc("TypeError"), "block_number - 1"))
                 /\ UNCHANGED <<idx, delivered>>
            ELSE IF ~balances_ok
            THEN \* lines 67-68: get_token_balance raises ValueError
                 /\ Crash(RaisedAt(Exc("ValueError"), "get_token_balance"))
                 /\ UNCHANGED <<idx, delivered>>
            ELSE \* line 70: the item is handed to the sink
                 /\ delivered' = Append(delivered, item)
                 /\ idx' = idx + 1
                 /\ UNCHANGED <<pc, error>>
    /\ UNCHANGED <<has_swap_event, last_block, current_block, transfer_events, swap_events, windows,
                   swap_win, pos_before>>
    /\ UNCHANGED <<events_vars, swaps_vars, notify_vars, load_vars>>
    /\ UNCHANGED preamble_vars

\* A variant of FetchSwaps that moves the position before the swap loop ran.
FetchSwapsAdvancingEarly ==
    /\ pc = "transfers_loop"
    /\ idx = Len(transfer_events)
    /\ swap_win' = NextWindow(last_block, current_block)
    /\ IF has_swap_event
       THEN \* web3_client.py:133-256: the token contracts are loaded, the logs fetched
            /\ \E items \in SwapItemSeqs(last_block + 1, current_block) : swap_events' = items
            /\ meta_loads' = meta_loads + 1
       ELSE \* web3_client.py:129-131: return []
            /\ swap_events' = <<>>
            /\ UNCHANGED meta_loads
    /\ idx' = 0
    /\ pc' = "swaps_loop"
    /\ last_block' = current_block
    /\ UNCHANGED <<has_swap_event, current_block, transfer_events, windows, delivered, pos_before, error>>
    /\ UNCHANGED <<events_vars, swaps_call_vars, notify_vars, load_vars>>
    /\ UNCHANGED preamble_vars

\* cli.py:72-73: the transfer loop is over; get_contract_swaps is called
\* with the same window and returns its list.
FetchSwaps ==
    /\ pc = "transfers_loop"
    /\ idx = Len(transfer_events)
    /\ swap_win' = NextWindow(last_block, current_block)
    /\ IF has_swap_event
       THEN \* web3_client.py:133-256: the token contracts are loaded, the logs fetched
            /\ \E items \in SwapItemSeqs(last_block + 1, current_block) : swap_events' = items
            /\ meta_loads' = meta_loads + 1
       ELSE \* web3_client.py:129-131: return []
            /\ swap_events' = <<>>
            /\ UNCHANGED meta_loads
    /\ idx' = 0
    /\ pc' = "swaps_loop"
    /\ UNCHANGED <<has_swap_event, last_block, current_block, transfer_events, windows, delivered,
                   pos_before, error>>
    /\ UNCHANGED <<events_vars, swaps_call_vars, notify_vars, load_vars>>
    /\ UNCHANGED preamble_vars

\* cli.py:72: get_contract_swaps raised (web3_client.py:153, 161).
FetchSwapsRaises ==
    /\ pc = "transfers_loop"
    /\ idx = Len(transfer_events)
    /\ swap_win' = NextWindow(last_block, current_block)
    /\ has_swap_event
    /\ Crash(RaisedAt(Exc("RuntimeError"), "get_contract_swaps"))
    \* the failure is before load_contract (token0(), line 135) or at or after it
    /\ \E loaded \in BOOLEAN : meta_loads' = IF loaded THEN meta_loads + 1 ELSE meta_loads
    /\ UNCHANGED <<has_swap_event, last_block, current_block, transfer_events, swap_events, idx, windows,
                   delivered, pos_before>>
    /\ UNCHANGED <<events_vars, swaps_call_vars, notify_vars, load_vars>>
    /\ UNCHANGED preamble_vars

\* cli.py:75-77: one iteration of the swap loop. print_swap_event_details is
\* defined with the one parameter `event` (web3_client.py:258) and called with
\* (swap_event, contract): the call raises TypeError before its body runs.
SwapItem ==
    /\ pc = "swaps_loop"
    /\ idx < Len(swap_events)
    /\ Crash(RaisedAt(Exc("TypeError"), "print_swap_event_details"))
    /\ UNCHANGED <<has_swap_event, last_block, current_block, transfer_events, swap_events, idx, windows,
                   swap_win, delivered, pos_before>>
    /\ UNCHANGED <<events_vars, swaps_vars, notify_vars, load_vars>>
    /\ UNCHANGED preamble_vars

\* cli.py:79: last_block = current_block
Advance ==
    /\ pc = "swaps_loop"
    /\ idx = Len(swap_events)
    /\ last_block' = current_block
    /\ pc' = "sleep"
    /\ UNCHANGED <<has_swap_event, current_block, transfer_events, swap_events, idx, windows, swap_win,
                   delivered, pos_before, error>>
    /\ UNCHANGED <<events_vars, swaps_vars, notify_vars, load_vars>>
    /\ UNCHANGED preamble_vars

\* cli.py:80: time.sleep(poll_interval); the cycle is over.
Sleep ==
    /\ pc = "sleep"
    /\ pc' = "poll"
    /\ pos_before' = last_block
    /\ UNCHANGED <<has_swap_event, last_block, current_block, transfer_events, swap_events, idx, windows,
                   swap_win, delivered, error>>
    /\ UNCHANGED <<events_vars, swaps_vars, notify_vars, load_vars>>
    /\ UNCHANGED preamble_vars

\* cli.py:81-82: KeyboardInterrupt, at any point of the loop.
Interrupt ==
    /\ pc \in LoopPcs
    /\ pc' = "stopped"
    /\ UNCHANGED <<has_swap_event, last_block, current_block, transfer_events, swap_events, idx, windows,
                   swap_win, delivered, pos_before, error>>
    /\ UNCHANGED <<events_vars, swaps_vars, notify_vars, load_vars>>
    /\ UNCHANGED preamble_vars

(***************************************************************************)
(* decimal.Decimal as get_contract_swaps uses it (web3_client.py:175-217):  *)
(* a value is (-1)^sign * int * 10^exp.                                     *)
(***************************************************************************)
Abs(n) == IF n < 0 THEN 0 - n ELSE n

\* Decimal.__truediv__, exact quotient: the coefficient loses trailing zeros
\* while the exponent is below the ideal exponent 0.
RECURSIVE ReduceToIdeal(_, _)
ReduceToIdeal(coeff, exp) ==
    IF exp < 0 /\ coeff % 10 = 0
    THEN ReduceToIdeal(coeff \div 10, exp + 1)
    ELSE [int |-> coeff, exp |-> exp]

\* A variant whose zero quotient keeps the exponent -decimals.
DecimalDivZeroKeepsExponent(raw, decimals) ==
    IF raw = 0
    THEN [sign |-> 0, int |-> 0, exp |-> 0 - decimals]
    ELSE LET r == ReduceToIdeal(Abs(raw), 0 - decimals)
         IN [sign |-> IF raw < 0 THEN 1 ELSE 0, int |-> r.int, exp |-> r.exp]
\* Decimal(raw) / Decimal(10**decimals), for |raw| within the context's
\* precision of 28 digits: the quotient by a power of ten is exact.
DecimalDiv(raw, decimals) ==
    IF raw = 0
    THEN [sign |-> 0, int |-> 0, exp |-> 0]
    ELSE LET r == ReduceToIdeal(Abs(raw), 0 - decimals)
         IN [sign |-> IF raw < 0 THEN 1 ELSE 0, int |-> r.int, exp |-> r.exp]
\* Decimal.__neg__: the negation of zero is +0.
DecimalNeg(d) == IF d.int = 0 THEN [d EXCEPT !.sign = 0] ELSE [d EXCEPT !.sign = 1 - d.sign]
\* Decimal.__abs__
DecimalAbs(d) == [d EXCEPT !.sign = 0]
\* amount > 0 on a Decimal (line 219)
DecimalIsPositive(d) == d.sign = 0 /\ d.int # 0

DigitChar(n) ==
    CASE n = 0 -> "0" [] n = 1 -> "1" [] n = 2 -> "2" [] n = 3 -> "3" [] n = 4 -> "4"
      [] n = 5 -> "5" [] n = 6 -> "6" [] n = 7 -> "7" [] n = 8 -> "8" [] n = 9 -> "9"
\* The decimal digits of n >= 0, as characters.
RECURSIVE Digits(_)
Digits(n) == IF n < 10 THEN <<DigitChar(n)>> ELSE Append(Digits(n \div 10), DigitChar(n % 10))
Zeros(n) == [i \in 1..n |-> "0"]

\* Decimal.__str__ (scientific notation when exp > 0 or when there are more
\* than 6 zeros after the point), as a sequence of characters.
DecimalStr(d) ==
    LET digits == Digits(d.int)
        leftdigits == d.exp + Len(digits)
        dotplace == IF d.exp <= 0 /\ leftdigits > 0 - 6 THEN leftdigits ELSE 1
        intpart == IF dotplace <= 0 THEN <<"0">>
                   ELSE IF dotplace >= Len(digits)
                   THEN digits \o Zeros(dotplace - Len(digits))
                   ELSE SubSeq(digits, 1, dotplace)
        fracpart == IF dotplace <= 0 THEN <<".">> \o Zeros(0 - dotplace) \o digits
                    ELSE IF dotplace >= Len(digits) THEN <<>>
                    ELSE <<".">> \o SubSeq(digits, dotplace + 1, Len(digits))
        e == leftdigits - dotplace
        exppart == IF e = 0 THEN <<>>
                   ELSE <<"E", IF e > 0 THEN "+" ELSE "-">> \o Digits(Abs(e))
    IN (IF d.sign = 1 THEN <<"-">> ELSE <<>>) \o intpart \o fracpart \o exppart

(***************************************************************************)
(* get_contract_swaps (web3_client.py:109-256)                             *)
(***************************************************************************)
\* Token contracts the pair may hold: name() and decimals().
Tokens ==
    { [name |-> "WETH", decimals |-> 18],
      [name |-> "Wrapped Ether", decimals |-> 1],
      [name |-> "USD Coin", decimals |-> 0],
      [name |-> "Dai Stablecoin", decimals |-> 2] }
\* str.lower() on the names above.
Lower(name) ==
    CASE name = "WETH" -> "weth"
      [] name = "Wrapped Ether" -> "wrapped ether"
      [] name = "USD Coin" -> "usd coin"
      [] name = "Dai Stablecoin" -> "dai stablecoin"
\* web3_client.py:149-150
IsWethName(name) == Lower(name) = "wrapped ether" \/ Lower(name) = "weth"

\* web3_client.py:135-150: what the try block leaves in the locals.
MetaOf(t0, t1) ==
    [token0_name |-> t0.name, token1_name |-> t1.name,
     decimals0 |-> t0.decimals, decimals1 |-> t1.decimals,
     is_token0_weth |-> IsWethName(t0.name),
     is_token1_weth |-> IsWethName(t1.name)]

\* Raw amounts of the logs' arguments.
SignedAmounts == {0 - 500, 0, 7}
UnsignedAmounts == {0, 100}
\* log.args of a Swap log: the two-amount encoding, the four-amount encoding,
\* or neither.
TwoAmountArgs == [amount0 : SignedAmounts, amount1 : SignedAmounts,
                  sender : {"0xS"}, recipient : {"0xR"}]
FourAmountArgs == [amount0In : UnsignedAmounts, amount1In : UnsignedAmounts,
                   amount0Out : UnsignedAmounts, amount1Out : UnsignedAmounts,
                   sender : {"0xS"}]
OtherArgs == [sender : {"0xS"}]
\* A Swap log at position i of the answer. numeric = FALSE: an amount of
\* args is no number, and Decimal(...) raises at line 175 or 214 (the amounts
\* of such a log are not read any further).
ZeroTwoAmountArgs == [amount0 |-> 0, amount1 |-> 0, sender |-> "0xS", recipient |-> "0xR"]
ZeroFourAmountArgs == [amount0In |-> 0, amount1In |-> 0, amount0Out |-> 0, amount1Out |-> 0,
                       sender |-> "0xS"]
SwapLogsAt(i) ==
    [args : TwoAmountArgs \cup FourAmountArgs \cup OtherArgs,
     transactionHash : {i}, numeric : {TRUE}]
    \cup [args : {ZeroTwoAmountArgs, ZeroFourAmountArgs},
          transactionHash : {i}, numeric : {FALSE}]

HasAttr(args, f) == f \in DOMAIN args

\* web3_client.py:179, 187
DirectionToken0Weth(amount0_raw) == IF amount0_raw < 0 THEN "BUY" ELSE "SELL"
DirectionToken1Weth(amount1_raw) == IF amount1_raw < 0 THEN "SELL" ELSE "BUY"

\* web3_client.py:171-210: the two-amount branch; <<>> when the pair is unknown.
TwoAmountData(args, m) ==
    LET amount0_raw == args.amount0
        amount1_raw == args.amount1
        q0 == DecimalDiv(amount0_raw, m.decimals0)
        q1 == DecimalDiv(amount1_raw, m.decimals1)
    IN IF m.is_token0_weth
       THEN LET direction == DirectionToken0Weth(amount0_raw)
            IN [amount0 |-> DecimalStr(IF direction = "BUY" THEN DecimalNeg(q0) ELSE DecimalAbs(q0)),
                amount1 |-> DecimalStr(IF direction = "BUY" THEN DecimalAbs(q1) ELSE DecimalNeg(q1)),
                direction |-> direction,
                token0_name |-> m.token0_name, token1_name |-> m.token1_name]
       ELSE IF m.is_token1_weth
       THEN LET direction == DirectionToken1Weth(amount1_raw)
            IN [amount0 |-> DecimalStr(IF direction = "BUY" THEN DecimalAbs(q0) ELSE DecimalNeg(q0)),
                amount1 |-> DecimalStr(IF direction = "BUY" THEN DecimalNeg(q1) ELSE DecimalAbs(q1)),
                direction |-> direction,
                token0_name |-> m.token0_name, token1_name |-> m.token1_name]
       ELSE <<>>

\* A variant that looks at the input amount of token0 only.
DirectionFourAmountByInput(amount0In, amount1Out) ==
    IF DecimalIsPositive(amount0In) THEN "token0 to token1" ELSE "token1 to token0"
\* web3_client.py:219, on the scaled Decimal amounts.
DirectionFourAmount(amount0In, amount1Out) ==
    IF DecimalIsPositive(amount0In) /\ DecimalIsPositive(amount1Out)
    THEN "token0 to token1" ELSE "token1 to token0"

\* web3_client.py:213-232: the four-amount branch.
FourAmountData(args, m) ==
    LET amount0In == DecimalDiv(args.amount0In, m.decimals0)
        amount1In == DecimalDiv(args.amount1In, m.decimals1)
        amount0Out == DecimalDiv(args.amount0Out, m.decimals0)
        amount1Out == DecimalDiv(args.amount1Out, m.decimals1)
    IN [amount0In |-> DecimalStr(amount0In), amount1In |-> DecimalStr(amount1In),
        amount0Out |-> DecimalStr(amount0Out), amount1Out |-> DecimalStr(amount1Out),
        direction |-> DirectionFourAmount(amount0In, amount1Out),
        token0_name |-> m.token0_name, token1_name |-> m.token1_name]

\* web3_client.py:235-244: swap_data.update({...common fields...})
\* (getattr(args, name, None) or "N/A").
CommonFields(log) ==
    [transactionHash |-> log.transactionHash,
     sender |-> IF HasAttr(log.args, "sender") THEN log.args.sender ELSE "N/A",
     recipient |-> IF HasAttr(log.args, "recipient") THEN log.args.recipient ELSE "N/A"]
\* dict.update: the fields of g added to (or replacing those of) f.
Update(f, g) == [k \in DOMAIN f \cup DOMAIN g |-> IF k \in DOMAIN g THEN g[k] ELSE f[k]]
\* web3_client.py:248-254
ErrorItem(log, e) == [error |-> e, transactionHash |-> log.transactionHash]

\* A variant in which a two-amount log of an unknown pair yields an error item.
SwapsAfterUnknownPairIsError(acc, log, m) ==
    LET args == log.args
        two == HasAttr(args, "amount0") /\ HasAttr(args, "amount1")
        four == \A a \in {"amount0In", "amount1In", "amount0Out", "amount1Out"} : HasAttr(args, a)
        swap_data == IF two THEN TwoAmountData(args, m)
                     ELSE IF four THEN FourAmountData(args, m)
                     ELSE <<>>
    IN IF (two \/ four) /\ ~log.numeric
       THEN Append(acc, ErrorItem(log, "InvalidOperation"))
       ELSE IF two /\ ~m.is_token0_weth /\ ~m.is_token1_weth
       THEN Append(acc, ErrorItem(log, "Unknown token pair"))
       ELSE Append(acc, Update(swap_data, CommonFields(log)))
\* A variant in which a log that fails to decode discards the items built
\* before it.
SwapsAfterErrorDiscards(acc, log, m) ==
    LET args == log.args
        two == HasAttr(args, "amount0") /\ HasAttr(args, "amount1")
        four == \A a \in {"amount0In", "amount1In", "amount0Out", "amount1Out"} : HasAttr(args, a)
        swap_data == IF two THEN TwoAmountData(args, m)
                     ELSE IF four THEN FourAmountData(args, m)
                     ELSE <<>>
    IN IF (two \/ four) /\ ~log.numeric
       THEN <<ErrorItem(log, "InvalidOperation")>>
       ELSE IF two /\ ~m.is_token0_weth /\ ~m.is_token1_weth
       THEN acc
       ELSE Append(acc, Update(swap_data, CommonFields(log)))
\* web3_client.py:164-254: the list after the loop body ran for `log`.
SwapsAfter(acc, log, m) ==
    LET args == log.args
        two == HasAttr(args, "amount0") /\ HasAttr(args, "amount1")
        four == \A a \in {"amount0In", "amount1In", "amount0Out", "amount1Out"} : HasAttr(args, a)
        swap_data == IF two THEN TwoAmountData(args, m)
                     ELSE IF four THEN FourAmountData(args, m)
                     ELSE <<>>
    IN IF (two \/ four) /\ ~log.numeric
       THEN Append(acc, ErrorItem(log, "InvalidOperation"))   \* line 175 or 214 raises
       ELSE IF two /\ ~m.is_token0_weth /\ ~m.is_token1_weth
       THEN acc                                              \* line 196: continue
       ELSE Append(acc, Update(swap_data, CommonFields(log)))

SwapsIdle ==
    /\ spc = "idle" /\ meta = <<>> /\ s_range = NoWindow /\ logs_in = <<>>
    /\ swaps = <<>> /\ s_error = NoError /\ meta_loads = 0

\* web3_client.py:120-126: the address check and the defaults of the range,
\* both from one reading r of w3.eth.block_number.
SwapsCall ==
    /\ spc = "idle"
    /\ \E valid \in BOOLEAN, f \in OptBlocks, t \in OptBlocks, r \in Heads :
        IF ~valid
        THEN /\ spc' = "raised"
             /\ s_error' = Exc("ValueError")
             /\ UNCHANGED s_range
        ELSE /\ spc' = "check_abi"
             /\ s_range' = <<IF f # NoBlock THEN f ELSE Max(0, r - DefaultSpan),
                            IF t # NoBlock THEN t ELSE r>>
             /\ UNCHANGED s_error
    /\ UNCHANGED <<meta_loads, meta, logs_in, swaps>>
    /\ UNCHANGED <<monitor_vars, events_vars, notify_vars, load_vars>>

\* web3_client.py:129-131: the ABI has no Swap event.
SwapsNoSwapEvent ==
    /\ spc = "check_abi"
    /\ spc' = "returned"
    /\ s_range' = NoWindow
    /\ UNCHANGED <<meta_loads, meta, logs_in, swaps, s_error>>
    /\ UNCHANGED <<monitor_vars, events_vars, notify_vars, load_vars>>

\* web3_client.py:134-150: token addresses, contracts, decimals and names.
SwapsLoadMetadata ==
    /\ spc = "check_abi"
    /\ \E t0 \in Tokens, t1 \in Tokens : meta' = MetaOf(t0, t1)
    /\ spc' = "get_logs"
    /\ meta_loads' = meta_loads + 1
    /\ UNCHANGED <<s_range, logs_in, swaps, s_error>>
    /\ UNCHANGED <<monitor_vars, events_vars, notify_vars, load_vars>>

\* web3_client.py:152-153: any exception of the block above.
SwapsMetadataFails ==
    /\ spc = "check_abi"
    /\ spc' = "raised"
    /\ s_error' = Exc("RuntimeError")
    /\ s_range' = NoWindow
    \* the failure is before load_contract (token0(), line 135) or at or after it
    /\ \E loaded \in BOOLEAN : meta_loads' = IF loaded THEN meta_loads + 1 ELSE meta_loads
    /\ UNCHANGED <<meta, logs_in, swaps>>
    /\ UNCHANGED <<monitor_vars, events_vars, notify_vars, load_vars>>

\* web3_client.py:156-159: the logs of the range are fetched; from_block and
\* to_block are not read again.
SwapsGetLogs ==
    /\ spc = "get_logs"
    /\ spc' = "loop"
    /\ s_range' = NoWindow
    /\ UNCHANGED <<meta_loads, meta, logs_in, swaps, s_error>>
    /\ UNCHANGED <<monitor_vars, events_vars, notify_vars, load_vars>>

\* web3_client.py:160-161
SwapsGetLogsFails ==
    /\ spc = "get_logs"
    /\ spc' = "raised"
    /\ s_error' = Exc("RuntimeError")
    /\ s_range' = NoWindow
    /\ UNCHANGED <<meta_loads, meta, logs_in, swaps>>
    /\ UNCHANGED <<monitor_vars, events_vars, notify_vars, load_vars>>

\* web3_client.py:164-254: one iteration of `for log in logs`.
SwapsLoopItem ==
    /\ spc = "loop"
    /\ Len(logs_in) < MaxLogs
    /\ \E log \in SwapLogsAt(Len(logs_in) + 1) :
        /\ logs_in' = Append(logs_in, log)
        /\ swaps' = SwapsAfter(swaps, log, meta)
    /\ UNCHANGED <<meta_loads, spc, meta, s_range, s_error>>
    /\ UNCHANGED <<monitor_vars, events_vars, notify_vars, load_vars>>

\* web3_client.py:256
SwapsReturn ==
    /\ spc = "loop"
    /\ spc' = "returned"
    /\ UNCHANGED <<meta_loads, meta, s_range, logs_in, swaps, s_error>>
    /\ UNCHANGED <<monitor_vars, events_vars, notify_vars, load_vars>>

SwapsNext ==
    \/ SwapsCall
    \/ SwapsNoSwapEvent
    \/ SwapsLoadMetadata
    \/ SwapsMetadataFails
    \/ SwapsGetLogs
    \/ SwapsGetLogsFails
    \/ SwapsLoopItem
    \/ SwapsReturn


(***************************************************************************)
(* The notification sink: Web3Client.print_swap_event_details              *)
(* (web3_client.py:258-304), Notifier (notifier.py) and                     *)
(* TelegramNotifier.send_message (telegram_notifier.py:16-48).              *)
(***************************************************************************)
\* The items get_contract_swaps produces, as the sink receives them, and the
\* same with the key dry_run set.
PlainEvents ==
    { [error |-> "InvalidOperation", transactionHash |-> 1],
      [amount0 |-> "0.5", amount1 |-> "-7", direction |-> "SELL",
       token0_name |-> "WETH", token1_name |-> "USD Coin",
       transactionHash |-> 1, sender |-> "0xS", recipient |-> "0xR"],
      [amount0In |-> "1", amount1In |-> "0", amount0Out |-> "0", amount1Out |-> "100",
       direction |-> "token0 to token1",
       token0_name |-> "WETH", token1_name |-> "USD Coin",
       transactionHash |-> 1, sender |-> "0xS", recipient |-> "N/A"],
      [transactionHash |-> 1, sender |-> "0xS", recipient |-> "N/A"] }
NotifyEvents == PlainEvents \cup {Update(e, [dry_run |-> TRUE]) : e \in PlainEvents}
\* dict.get(key, default)
Get(d, key, default) == IF key \in DOMAIN d THEN d[key] ELSE default

\* web3_client.py:261-291: the message, by its parts.
SwapMessage(ev) ==
    IF "error" \in DOMAIN ev
    THEN [text |-> "Error decoding event", error |-> ev.error, transaction |-> ev.transactionHash]
    ELSE [text |-> "New Swap Event",
          transaction |-> Get(ev, "transactionHash", "N/A"),
          sender |-> Get(ev, "sender", "N/A"),
          recipient |-> Get(ev, "recipient", "N/A"),
          amounts |-> IF "amount0" \in DOMAIN ev
                      THEN <<ev.amount0, ev.amount1>>
                      ELSE <<Get(ev, "amount0In", "N/A"), Get(ev, "amount1In", "N/A"),
                             Get(ev, "amount0Out", "N/A"), Get(ev, "amount1Out", "N/A")>>,
          names |-> <<Get(ev, "token0_name", "Unknown"), Get(ev, "token1_name", "Unknown")>>,
          direction |-> Get(ev, "direction", "N/A")]
\* notifier.py:26-43
FormatMessage(ev) ==
    IF "error" \in DOMAIN ev
    THEN [text |-> "Error decoding event", error |-> ev.error, transaction |-> ev.transactionHash]
    ELSE [text |-> "swap",
          transaction |-> Get(ev, "transactionHash", "N/A"),
          amounts |-> IF "amount0" \in DOMAIN ev
                      THEN <<ev.amount0, ev.amount1>>
                      ELSE <<Get(ev, "amount0In", "N/A"), Get(ev, "amount1Out", "N/A")>>,
          names |-> <<Get(ev, "token0_name", "Unknown"), Get(ev, "token1_name", "Unknown")>>]

NoMessage == [text |-> "none"]
NoEvent == [transactionHash |-> 0]
NotifyIdle ==
    /\ npc = "idle" /\ calls = 0 /\ operation = "none" /\ n_event = NoEvent /\ message = NoMessage
    /\ console = <<>> /\ sent = <<>> /\ sink_failure = "none" /\ n_error = NoError

\* web3_client.py:258-297: print_swap_event_details(event) formats the
\* message and prints it; the process may pass one item after the other.
PrintSwapCall ==
    /\ npc \in {"idle", "returned"}
    /\ calls < MaxCalls
    /\ calls' = calls + 1
    /\ sink_failure' = "none"
    /\ \E ev \in NotifyEvents :
        /\ n_event' = ev
        /\ message' = SwapMessage(ev)
    /\ operation' = "print_swap_event_details"
    /\ console' = Append(console, "Swap Event Details")
    /\ npc' = "construct"
    /\ UNCHANGED <<sent, n_error>>
    /\ UNCHANGED <<monitor_vars, events_vars, swaps_vars, load_vars>>

\* web3_client.py:301, telegram_notifier.py:18-22: TelegramNotifier() is built.
PrintSwapConstruct ==
    /\ npc = "construct"
    /\ npc' = "send"
    /\ UNCHANGED <<calls, operation, n_event, message, console, sent, sink_failure, n_error>>
    /\ UNCHANGED <<monitor_vars, events_vars, swaps_vars, load_vars>>

\* telegram_notifier.py:19-20: TELEGRAM_BOT_TOKEN is not set, TelegramNotifier()
\* raises ValueError; web3_client.py:303-304 reports it.
PrintSwapConstructFails ==
    /\ npc = "construct"
    /\ sink_failure' = "construct"
    /\ console' = Append(console, "Failed to send Telegram notification")
    /\ npc' = "returned"
    /\ UNCHANGED <<calls, operation, n_event, message, sent, n_error>>
    /\ UNCHANGED <<monitor_vars, events_vars, swaps_vars, load_vars>>

\* notifier.py:11-12: Notifier() builds its TelegramNotifier; without the token
\* the ValueError leaves the constructor.
NotifierInitFails ==
    /\ npc = "idle"
    /\ calls' = calls + 1
    /\ operation' = "Notifier()"
    /\ sink_failure' = "construct"
    /\ npc' = "raised"
    /\ n_error' = Exc("ValueError")
    /\ UNCHANGED <<n_event, message, console, sent>>
    /\ UNCHANGED <<monitor_vars, events_vars, swaps_vars, load_vars>>

\* notifier.py:14-24: notify(swap_event) of a Notifier that was built; the
\* process may pass one item after the other.
NotifyCall ==
    /\ npc \in {"idle", "returned"}
    /\ calls < MaxCalls
    /\ calls' = calls + 1
    /\ sink_failure' = "none"
    /\ \E ev \in NotifyEvents :
        /\ n_event' = ev
        /\ message' = FormatMessage(ev)
    /\ operation' = "Notifier.notify"
    /\ npc' = "send"
    /\ UNCHANGED <<console, sent, n_error>>
    /\ UNCHANGED <<monitor_vars, events_vars, swaps_vars, load_vars>>

\* The dry_run argument of send_message: notifier.py:21, 24 pass the event's
\* flag; web3_client.py:302 passes none.
DryRun == operation = "Notifier.notify" /\ Get(n_event, "dry_run", FALSE)

\* telegram_notifier.py:45-46: dry run, nothing is sent.
SendDryRun ==
    /\ npc = "send"
    /\ DryRun
    /\ console' = Append(console, "[DRY RUN] Would send Telegram message")
    /\ npc' = "returned"
    /\ UNCHANGED <<calls, operation, n_event, message, sent, sink_failure, n_error>>
    /\ UNCHANGED <<monitor_vars, events_vars, swaps_vars, load_vars>>

\* telegram_notifier.py:26-28, 48: the message is sent.
SendOk ==
    /\ npc = "send"
    /\ ~DryRun
    /\ sent' = Append(sent, message)
    /\ npc' = "returned"
    /\ UNCHANGED <<calls, operation, n_event, message, console, sink_failure, n_error>>
    /\ UNCHANGED <<monitor_vars, events_vars, swaps_vars, load_vars>>

\* telegram_notifier.py:29-31: bot.send_message raises TelegramError; it is
\* printed and send_message returns False.
SendTelegramError ==
    /\ npc = "send"
    /\ ~DryRun
    /\ sink_failure' = "TelegramError"
    /\ console' = Append(console, "Failed to send Telegram message")
    /\ npc' = "returned"
    /\ UNCHANGED <<calls, operation, n_event, message, sent, n_error>>
    /\ UNCHANGED <<monitor_vars, events_vars, swaps_vars, load_vars>>

\* telegram_notifier.py:48: asyncio.run or the coroutine raises an exception
\* that is no TelegramError; it leaves send_message. print_swap_event_details
\* catches it (web3_client.py:303-304), Notifier.notify has no handler
\* (notifier.py:24).
SendOtherError ==
    /\ npc = "send"
    /\ ~DryRun
    /\ sink_failure' = "other"
    /\ IF operation = "print_swap_event_details"
       THEN /\ console' = Append(console, "Failed to send Telegram notification")
            /\ npc' = "returned"
            /\ UNCHANGED n_error
       ELSE /\ npc' = "raised"
            /\ n_error' = Exc("RuntimeError")
            /\ UNCHANGED console
    /\ UNCHANGED <<calls, operation, n_event, message, sent>>
    /\ UNCHANGED <<monitor_vars, events_vars, swaps_vars, load_vars>>

NotifyNext ==
    \/ PrintSwapCall
    \/ PrintSwapConstruct
    \/ PrintSwapConstructFails
    \/ NotifierInitFails
    \/ NotifyCall
    \/ SendDryRun
    \/ SendOk
    \/ SendTelegramError
    \/ SendOtherError

(***************************************************************************)
(* BaseScanClient.fetch_contract_abi and load_contract                     *)
(* (basescan_client.py:23-61).                                             *)
(***************************************************************************)
Addresses == {"0xA", "0xB"}
\* An ABI: the address it was fetched for and its number of entries.
UnsetAbi == [of |-> "unset", entries |-> 0]
AbiOf(address) == [of |-> address, entries |-> 1]
EmptyAbi(address) == [of |-> address, entries |-> 0]
NoContract == [address |-> "none", abi |-> UnsetAbi]
NoLoadError == [type |-> "none", message |-> <<>>]
\* A variant of the test at line 56 that takes every ABI as non-empty.
AbiIsEmptyNever(abi) == FALSE
\* basescan_client.py:56: `not self.contract_abi`
AbiIsEmpty(abi) == abi.entries = 0
\* basescan_client.py:58-59: any exception of the try block becomes
\* ValueError(f"Failed to fetch ABI for contract {address}: {e}").
Wrapped(address, inner) ==
    [type |-> "ValueError", message |-> <<"Failed to fetch ABI for contract", address>> \o inner]

LoadIdle ==
    /\ lpc = "idle" /\ loads = 0
    /\ contract_address = "unset" /\ contract_abi = UnsetAbi
    /\ answer = "none" /\ l_result = NoContract /\ l_error = NoLoadError
    /\ last_good = NoContract

\* basescan_client.py:51-54: load_contract(address) stores the address and
\* starts the fetch.
LoadCall ==
    /\ lpc \in {"idle", "returned", "raised"}
    /\ loads < MaxLoads
    /\ loads' = loads + 1
    /\ \E address \in Addresses : contract_address' = address
    /\ lpc' = "fetching"
    /\ answer' = "none"
    /\ l_result' = NoContract
    /\ l_error' = NoLoadError
    /\ UNCHANGED <<contract_abi, last_good>>
    /\ UNCHANGED <<monitor_vars, events_vars, swaps_vars, notify_vars>>

\* basescan_client.py:37-43, 55-61: the explorer answers status "1" with an
\* ABI; it is stored, tested and, when not empty, the contract is returned.
FetchAbiAnswered ==
    /\ lpc = "fetching"
    /\ \E abi \in {AbiOf(contract_address), EmptyAbi(contract_address)} :
        /\ contract_abi' = abi
        /\ answer' = IF abi = EmptyAbi(contract_address) THEN "empty" ELSE "abi"
        /\ IF AbiIsEmpty(abi)
           THEN /\ lpc' = "raised"
                /\ l_error' = Wrapped(contract_address, <<"ABI is empty">>)
                /\ UNCHANGED <<l_result, last_good>>
           ELSE /\ lpc' = "returned"
                /\ l_result' = [address |-> contract_address, abi |-> abi]
                /\ last_good' = [address |-> contract_address, abi |-> abi]
                /\ UNCHANGED l_error
    /\ UNCHANGED <<loads, contract_address>>
    /\ UNCHANGED <<monitor_vars, events_vars, swaps_vars, notify_vars>>

\* basescan_client.py:44-46, 58-59: the explorer answers another status with
\* its message in `result`.
FetchApiError ==
    /\ lpc = "fetching"
    /\ answer' = "api_error"
    /\ lpc' = "raised"
    /\ l_error' = Wrapped(contract_address,
                          <<"BaseScan API error", "Contract source code not verified">>)
    /\ UNCHANGED <<loads, contract_address, contract_abi, l_result, last_good>>
    /\ UNCHANGED <<monitor_vars, events_vars, swaps_vars, notify_vars>>

\* basescan_client.py:37-38, 47-48, 58-59: requests.get or raise_for_status
\* raises a RequestException.
FetchTransportError ==
    /\ lpc = "fetching"
    /\ answer' = "transport"
    /\ lpc' = "raised"
    /\ l_error' = Wrapped(contract_address,
                          <<"Failed to fetch ABI from BaseScan", "Network error">>)
    /\ UNCHANGED <<loads, contract_address, contract_abi, l_result, last_good>>
    /\ UNCHANGED <<monitor_vars, events_vars, swaps_vars, notify_vars>>

LoadNext ==
    \/ LoadCall
    \/ FetchAbiAnswered
    \/ FetchApiError
    \/ FetchTransportError

Init ==
    /\ MonitorIdle /\ pc = "idle"
    /\ EventsIdle
    /\ SwapsIdle
    /\ NotifyIdle
    /\ LoadIdle

\* cli.py:28-31, 103-106: one of the two commands is invoked and builds its
\* clients.
Invoke ==
    /\ pc = "idle"
    /\ command' \in {"monitor", "scan"}
    /\ pc' = "connect"
    /\ UNCHANGED <<has_swap_event, last_block, current_block, transfer_events, swap_events, idx,
                   windows, swap_win, delivered, pos_before, error>>
    /\ UNCHANGED <<cli_output, abi_loads, scan_activity>>
    /\ UNCHANGED <<events_vars, swaps_vars, notify_vars, load_vars>>

\* A variant of ConnectFails that echoes the error and goes on to the ABI load.
ConnectFailsGoesOn ==
    /\ pc = "connect"
    /\ cli_output' = Append(cli_output, "Error: Could not connect to Base L2")
    /\ pc' = "load_abi"
    /\ UNCHANGED <<has_swap_event, last_block, current_block, transfer_events, swap_events, idx,
                   windows, swap_win, delivered, pos_before, error>>
    /\ UNCHANGED <<command, abi_loads, scan_activity>>
    /\ UNCHANGED <<events_vars, swaps_vars, notify_vars, load_vars>>

\* cli.py:33-35, 107-109: is_connected() is false; the error is echoed and the
\* command returns.
ConnectFails ==
    /\ pc = "connect"
    /\ cli_output' = Append(cli_output, "Error: Could not connect to Base L2")
    /\ pc' = "exited"
    /\ UNCHANGED <<has_swap_event, last_block, current_block, transfer_events, swap_events, idx,
                   windows, swap_win, delivered, pos_before, error>>
    /\ UNCHANGED <<command, abi_loads, scan_activity>>
    /\ UNCHANGED <<events_vars, swaps_vars, notify_vars, load_vars>>

\* cli.py:33, 107: is_connected() is true.
Connect ==
    /\ pc = "connect"
    /\ pc' = "load_abi"
    /\ UNCHANGED <<has_swap_event, last_block, current_block, transfer_events, swap_events, idx,
                   windows, swap_win, delivered, pos_before, error>>
    /\ UNCHANGED preamble_vars
    /\ UNCHANGED <<events_vars, swaps_vars, notify_vars, load_vars>>

\* cli.py:38-44, 113-119: to_checksum_address or load_contract raises
\* ValueError; the error is echoed and the command returns.
AbiLoadFails ==
    /\ pc = "load_abi"
    /\ \E reached_load \in BOOLEAN :
        abi_loads' = IF reached_load THEN abi_loads + 1 ELSE abi_loads
    /\ cli_output' = cli_output \o <<"Loading contract ABI", "Error loading contract ABI">>
    /\ pc' = "exited"
    /\ UNCHANGED <<has_swap_event, last_block, current_block, transfer_events, swap_events, idx,
                   windows, swap_win, delivered, pos_before, error>>
    /\ UNCHANGED <<command, scan_activity>>
    /\ UNCHANGED <<events_vars, swaps_vars, notify_vars, load_vars>>

\* cli.py:38-49, 113-122: the ABI is loaded and "Connected to Base L2" is
\* echoed; the ABI loaded has a Swap event or has none.
Launch ==
    /\ pc = "load_abi"
    /\ abi_loads' = abi_loads + 1
    /\ cli_output' = cli_output \o <<"Loading contract ABI", "Connected to Base L2">>
    /\ pc' = IF command = "monitor" THEN "init" ELSE "scan_fetch"
    /\ has_swap_event' \in BOOLEAN
    /\ UNCHANGED <<last_block, current_block, transfer_events, swap_events, idx, windows,
                   swap_win, delivered, pos_before, error>>
    /\ UNCHANGED <<command, scan_activity>>
    /\ UNCHANGED <<events_vars, swaps_vars, notify_vars, load_vars>>

\* cli.py:123-151: an exception raised in the body of scan's try block:
\* ValueError is echoed and the command returns, any other leaves the command.
ScanRaises(e, where) ==
    IF e.type = "ValueError"
    THEN /\ cli_output' = Append(cli_output, "Error")
         /\ pc' = "exited"
         /\ UNCHANGED error
    ELSE /\ Crash(RaisedAt(e, where))
         /\ UNCHANGED cli_output

\* cli.py:124: get_contract_transfers(contract, from_block=from_block,
\* to_block=to_block) with the options given (None when absent) fetches the
\* logs with get_contract_events.
ScanFetchTransfers ==
    /\ pc = "scan_fetch"
    /\ \E from_arg \in OptBlocks, to_arg \in OptBlocks, r1 \in Heads, r2 \in Heads :
        /\ r1 <= r2
        /\ ResolveFrom(from_arg, r1) <= ResolveTo(to_arg, r2)
        /\ EventsEnter("scan", TRUE, from_arg, to_arg, r1, r2)
    /\ scan_activity' = scan_activity \cup {"fetch"}
    /\ pc' = "in_scan_transfers"
    /\ UNCHANGED <<has_swap_event, last_block, current_block, transfer_events, swap_events, idx,
                   windows, swap_win, delivered, pos_before, error>>
    /\ UNCHANGED <<command, cli_output, abi_loads>>
    /\ UNCHANGED <<swaps_vars, notify_vars, load_vars>>

\* cli.py:124-128: the fetch returned; with no events "No events found" is
\* echoed and the command returns.
ScanTransfersReturn ==
    /\ pc = "in_scan_transfers"
    /\ caller = "scan"
    /\ epc = "returned"
    /\ IF DecodeTransfers(events) = <<>>
       THEN /\ cli_output' = Append(cli_output, "No events found")
            /\ pc' = "exited"
       ELSE /\ pc' = "scan_items"
            /\ UNCHANGED cli_output
    /\ UNCHANGED <<has_swap_event, last_block, current_block, transfer_events, swap_events, idx,
                   windows, swap_win, delivered, pos_before, error>>
    /\ UNCHANGED <<command, abi_loads, scan_activity>>
    /\ UNCHANGED <<events_vars, swaps_vars, notify_vars, load_vars>>

\* cli.py:124, 150-151: the fetch raised.
ScanTransfersRaise ==
    /\ pc = "in_scan_transfers"
    /\ caller = "scan"
    /\ epc = "raised"
    /\ ScanRaises(e_error, "scan: get_contract_transfers")
    /\ UNCHANGED <<has_swap_event, last_block, current_block, transfer_events, swap_events, idx,
                   windows, swap_win, delivered, pos_before>>
    /\ UNCHANGED <<command, abi_loads, scan_activity>>
    /\ UNCHANGED <<events_vars, swaps_vars, notify_vars, load_vars>>

\* cli.py:130-142: the decimals are read, then for each event the balances
\* are queried and the event is printed.
ScanItems ==
    /\ pc = "scan_items"
    /\ LET items == DecodeTransfers(events)
           Bad == {i \in 1..Len(items) : ~HasBlockNumber(items[i])}
       IN \E decimals_ok \in BOOLEAN, balances_ok \in BOOLEAN :
            IF ~decimals_ok
            THEN \* line 131: get_token_decimals raises ValueError
                 /\ ScanRaises(Exc("ValueError"), "scan: get_token_decimals")
                 /\ UNCHANGED scan_activity
            ELSE IF ~balances_ok
            THEN \* lines 138-139: get_token_balance raises ValueError
                 /\ 1 \notin Bad
                 /\ ScanRaises(Exc("ValueError"), "scan: get_token_balance")
                 /\ scan_activity' = scan_activity \cup {"balance"}
            ELSE IF Bad # {}
            THEN \* lines 134, 138: "latest" - 1 raises TypeError
                 /\ ScanRaises(Exc("TypeError"), "scan: block_number - 1")
                 /\ scan_activity' = IF 1 \in Bad THEN scan_activity
                                     ELSE scan_activity \cup {"balance", "notify"}
            ELSE \* line 141: every event is printed
                 /\ scan_activity' = scan_activity \cup {"balance", "notify"}
                 /\ pc' = "scan_swaps"
                 /\ UNCHANGED <<cli_output, error>>
    /\ UNCHANGED <<has_swap_event, last_block, current_block, transfer_events, swap_events, idx,
                   windows, swap_win, delivered, pos_before>>
    /\ UNCHANGED <<command, abi_loads>>
    /\ UNCHANGED <<events_vars, swaps_vars, notify_vars, load_vars>>

\* cli.py:144-148: get_contract_swaps is called; it raises RuntimeError
\* (web3_client.py:153, 161) or returns n items, and the first item's
\* print_swap_event_details(swap_event, contract) raises TypeError.
ScanFetchSwaps ==
    /\ pc = "scan_swaps"
    /\ scan_activity' = scan_activity \cup {"fetch"}
    /\ IF has_swap_event
       THEN \E raises \in BOOLEAN, loaded \in BOOLEAN, n \in 0..MaxItems :
              /\ meta_loads' = IF raises /\ ~loaded THEN meta_loads ELSE meta_loads + 1
              /\ IF raises
                 THEN ScanRaises(Exc("RuntimeError"), "scan: get_contract_swaps")
                 ELSE IF n > 0
                 THEN ScanRaises(Exc("TypeError"), "scan: print_swap_event_details")
                 ELSE /\ pc' = "exited"
                      /\ UNCHANGED <<cli_output, error>>
       ELSE \* web3_client.py:129-131: return []
            /\ pc' = "exited"
            /\ UNCHANGED <<cli_output, error, meta_loads>>
    /\ UNCHANGED <<has_swap_event, last_block, current_block, transfer_events, swap_events, idx,
                   windows, swap_win, delivered, pos_before>>
    /\ UNCHANGED <<command, abi_loads>>
    /\ UNCHANGED <<events_vars, swaps_call_vars, notify_vars, load_vars>>

Next ==
    \/ Invoke
    \/ ConnectFails
    \/ Connect
    \/ AbiLoadFails
    \/ Launch
    \/ Start
    \/ LatestBlockFails
    \/ Poll
    \/ FetchTransfers
    \/ EventsAttemptOk
    \/ EventsAttemptHttpError
    \/ EventsAttemptOtherError
    \/ TransfersReturn
    \/ TransfersRaise
    \/ TransferItem
    \/ FetchSwaps
    \/ FetchSwapsRaises
    \/ SwapItem
    \/ Advance
    \/ Sleep
    \/ Interrupt
    \/ ScanFetchTransfers
    \/ ScanTransfersReturn
    \/ ScanTransfersRaise
    \/ ScanItems
    \/ ScanFetchSwaps

Spec == Init /\ [][Next]_vars

EventsNext ==
    \/ EventsCall
    \/ EventsAttemptOk
    \/ EventsAttemptHttpError
    \/ EventsAttemptOtherError

EventsSpec == Init /\ [][EventsNext]_vars

SwapsSpec == Init /\ [][SwapsNext]_vars

NotifySpec == Init /\ [][NotifyNext]_vars

LoadSpec == Init /\ [][LoadNext]_vars


(***************************************************************************)
(* Properties of the poll loop (Spec).                                     *)
(***************************************************************************)
LastWindow == windows[Len(windows)]

\* C1: the windows the cycles fetch tile the block range: every window has
\* from <= to, and each window starts at the previous window's to + 1 (no
\* block covered twice, none skipped); the swap fetch of a cycle uses the
\* cycle's window.
C1_WindowsTile ==
    /\ \A i \in 1..Len(windows) : windows[i][1] <= windows[i][2]
    /\ \A i \in 1..(Len(windows) - 1) : windows[i + 1][1] = windows[i][2] + 1
    /\ swap_win # NoWindow => (windows # <<>> /\ swap_win = LastWindow)
\* Three windows were fetched one after the other.
C1_Witness == Len(windows) >= 3 /\ pc = "sleep"

\* C2 as stated: whenever the latest block L read by a cycle is >= the
\* position, the cycle's window is [position + 1, L] and the position is L
\* after the cycle.
C2_Original ==
    (pc = "sleep" /\ current_block >= pos_before)
        => /\ windows # <<>>
           /\ LastWindow = <<pos_before + 1, current_block>>
           /\ last_block = current_block
\* C2 (amended): when the latest block L read by a cycle is > the position,
\* the window fetched is exactly [position + 1, L], for the transfers and for
\* the swaps, and once the window is processed the position is L; when L
\* equals the position no window is fetched and the position stays L.
C2_NextWindowAndPosition ==
    /\ pc \in {"in_transfers", "transfers_loop", "swaps_loop"}
        => /\ current_block > last_block
           /\ LastWindow = <<last_block + 1, current_block>>
           /\ swap_win \in {NoWindow, LastWindow}
    /\ (pc = "sleep" /\ current_block > pos_before)
        => /\ windows # <<>>
           /\ LastWindow = <<pos_before + 1, current_block>>
           /\ swap_win = LastWindow
           /\ last_block = current_block
    /\ (pc = "sleep" /\ current_block = pos_before)
        => /\ swap_win = NoWindow
           /\ windows # <<>> => LastWindow[2] <= pos_before
           /\ last_block = current_block
\* Position 1, latest block 3: window [2, 3] was processed, the position is 3.
C2_Witness ==
    /\ pc = "sleep" /\ pos_before = 1 /\ current_block = 3
    /\ LastWindow = <<2, 3>> /\ last_block = 3

\* C3 as stated: a latest block lower than the last scanned block is fatal
\* (InvalidRangeError), never silently ignored.
C3_RegressionIsFatal ==
    (current_block # NoBlock /\ current_block < last_block)
        => (pc = "crashed" /\ error.type = "InvalidRangeError")

\* C4: the position is advanced to the window's upper bound only after every
\* transfer and swap item of the window was handed to the sink; while an item
\* is unprocessed, and after a failed cycle, the position has its value from
\* before the cycle.
C4_AdvanceOnlyAfterAll ==
    /\ last_block # pos_before
        => /\ last_block = current_block
           /\ windows # <<>> /\ LastWindow[2] = last_block
           /\ delivered = transfer_events \o swap_events
           /\ error = NoError
    /\ pc \in {"fetch_transfers", "in_transfers", "transfers_loop", "swaps_loop", "crashed"}
        => last_block = pos_before
\* A window with two transfers was processed and the position advanced.
C4_Witness ==
    /\ pc = "sleep" /\ last_block # pos_before
    /\ Len(transfer_events) = 2 /\ Len(delivered) = 2

\* C5 as stated: when the log fetch fails after exhausting its retries the
\* poll loop does not terminate (it sleeps and polls again).
C5_LoopSurvivesFetchFailure ==
    (/\ error.at = "get_contract_transfers"
     /\ Len(outcomes) = max_retries
     /\ \A i \in 1..Len(outcomes) : Retryable(outcomes[i]))
        => pc \in LoopPcs

\* C14 as stated: over all the poll cycles of one process the metadata
\* provider is asked at most once for a token address (here token0's).
C14_MetadataLoadedOnce == meta_loads <= 1

\* C15 as stated: within one cycle the items are handed to the sink in
\* ascending (blockNumber, logIndex) order, transfers and swaps together: the
\* transfers handed over are in ascending order, and a swap passed to
\* print_swap_event_details (cli.py:77) is not from an earlier block than a
\* transfer handed over before it.
C15_AscendingHandOver ==
    /\ \A j \in 1..Len(delivered) : \A k \in (j + 1)..Len(delivered) :
            delivered[j].blockNumber <= delivered[k].blockNumber
    /\ (error.at = "print_swap_event_details" /\ IsSwapDict(swap_events[idx + 1]))
        => \A k \in 1..Len(delivered) :
                delivered[k].blockNumber <= swap_events[idx + 1].blockNumber

\* C17 as stated: a cancellation request stops the loop only at a
\* suspension point (the inter-cycle sleep and the loop's turn around it, or
\* the backoff sleep of the fetch, which has slept at least once); it does
\* not stop the loop while the fetch, the decoding or the hand-over of the
\* cycle's items is in progress.
C17_CancelOnlyAtSleep ==
    [][pc' = "stopped"
        => \/ pc \in {"sleep", "poll", "fetch_transfers"}
           \/ pc = "in_transfers" /\ epc = "attempt" /\ slept # <<>>]_vars

RECURSIVE Pow(_, _)
Pow(b, n) == IF n = 0 THEN 1 ELSE b * Pow(b, n - 1)
LastOutcome == outcomes[Len(outcomes)]

\* C6: at most 3 get_logs attempts for one call; a sleep of 2 before the
\* second and of 4 before the third, none after the last attempt; the call
\* returns at the first attempt that succeeds.
C6_BoundedBackoff ==
    /\ Len(outcomes) <= max_retries
    /\ \A i \in 1..Len(slept) : slept[i] = retry_delay_base * Pow(2, i - 1)
    /\ epc = "attempt" => Len(slept) = Len(outcomes)
    /\ (epc \in {"returned", "raised"} /\ outcomes # <<>>)
        => Len(slept) = Len(outcomes) - 1
    /\ epc = "returned"
        => /\ outcomes # <<>> /\ LastOutcome = Answered
           /\ \A i \in 1..(Len(outcomes) - 1) : outcomes[i] # Answered
\* Three attempts failed with 503: sleeps of 2 and 4, then the error surfaces.
C6_Witness ==
    /\ epc = "raised" /\ caller = "direct"
    /\ outcomes = <<503, 503, 503>> /\ slept = <<2, 4>>

\* C24 as stated: when neither from_block nor to_block is given, the range
\* scanned is [max(0, L - 1000), L] for one latest block L.
C24_SingleReading ==
    (epc # "idle" /\ e_error.type # "ValueError" /\ given = <<NoBlock, NoBlock>>)
        => from_block = Max(0, to_block - DefaultSpan)

\* C25 as stated: when every attempt of the fetch failed, the call returns
\* an empty list; it does not raise.
C25_EmptyListAfterRetries ==
    (Len(outcomes) = max_retries /\ \A i \in 1..Len(outcomes) : Retryable(outcomes[i]))
        => (epc = "returned" /\ events = <<>>)

\* C7 as stated: every HTTP error with a 5xx status is retried (it surfaces
\* only when the attempts are used up).
C7_Original ==
    (epc = "raised" /\ e_error.type = "HTTPError" /\ Is5xx(e_error.status))
        => Len(outcomes) = max_retries
\* C7 (amended): a fetch failure is retried if and only if it is an HTTPError
\* with status 503 and attempts remain; every other failure (other 5xx
\* statuses included) surfaces at the attempt where it happens, with no sleep
\* after it and no further attempt.
C7_Retry503Only ==
    /\ \A i \in 1..(Len(outcomes) - 1) : outcomes[i] = 503
    /\ (epc = "raised" /\ e_error = HTTPError(503)) => Len(outcomes) = max_retries
    /\ (epc = "raised" /\ outcomes # <<>>)
        => /\ LastOutcome # Answered
           /\ e_error.status = LastOutcome
           /\ Len(slept) = Len(outcomes) - 1
\* A 500 on the first attempt surfaced at once, without sleep or retry.
C7_Witness ==
    /\ epc = "raised" /\ caller = "direct"
    /\ e_error = HTTPError(500) /\ outcomes = <<500>> /\ slept = <<>>


(***************************************************************************)
(* Properties of get_contract_swaps (SwapsSpec).                           *)
(***************************************************************************)
\* A rendered amount is negative (starts with "-"), resp. positive.
IsNegativeStr(str) == Head(str) = "-"
IsPositiveStr(str) == Head(str) # "-" /\ str # <<"0">>
IsTwoAmountLog(log) == HasAttr(log.args, "amount0") /\ HasAttr(log.args, "amount1")
\* With a wrapped-native token in the pair no log is skipped: the i-th item
\* of swaps is the item of the i-th log.
WethPair == meta.is_token0_weth \/ meta.is_token1_weth

\* C8 as stated: token0 is the wrapped-native asset and the raw amount0 is
\* negative (raw amount1 positive): direction BUY, displayed amount0
\* negative, displayed amount1 positive.
C8_Token0WethBuy ==
    \A i \in 1..Len(logs_in) :
        (/\ meta.is_token0_weth
         /\ IsTwoAmountLog(logs_in[i]) /\ logs_in[i].numeric
         /\ logs_in[i].args.amount0 < 0 /\ logs_in[i].args.amount1 > 0)
            => /\ swaps[i].direction = "BUY"
               /\ IsNegativeStr(swaps[i].amount0)
               /\ IsPositiveStr(swaps[i].amount1)

\* C9 as stated: when token1 (and not token0) is the wrapped-native asset,
\* direction is BUY exactly when the raw amount1 is negative, SELL otherwise.
C9_MirroredDirection ==
    \A i \in 1..Len(logs_in) :
        (/\ meta.is_token1_weth /\ ~meta.is_token0_weth
         /\ IsTwoAmountLog(logs_in[i]) /\ logs_in[i].numeric)
            => swaps[i].direction = (IF logs_in[i].args.amount1 < 0 THEN "BUY" ELSE "SELL")

\* C10 as stated: with a wrapped-native token in the pair and raw amounts
\* that are nonzero and of opposite sign, the displayed amount0 and amount1
\* have opposite signs.
C10_OppositeSigns ==
    \A i \in 1..Len(logs_in) :
        (/\ WethPair
         /\ IsTwoAmountLog(logs_in[i]) /\ logs_in[i].numeric
         /\ logs_in[i].args.amount0 # 0 /\ logs_in[i].args.amount1 # 0
         /\ (logs_in[i].args.amount0 < 0) # (logs_in[i].args.amount1 < 0))
            => IsNegativeStr(swaps[i].amount0) # IsNegativeStr(swaps[i].amount1)

IsFourAmountLog(log) ==
    /\ ~IsTwoAmountLog(log)
    /\ \A a \in {"amount0In", "amount1In", "amount0Out", "amount1Out"} : HasAttr(log.args, a)
\* The items of swaps that come from the i-th log (they carry its hash).
ItemsOfLog(i) == {k \in 1..Len(swaps) : swaps[k].transactionHash = logs_in[i].transactionHash}
IsErrorItem(item) == "error" \in DOMAIN item

\* C11: a four-amount log yields exactly one item; its direction is token0 to
\* token1 exactly when the raw amount0In > 0 and the raw amount1Out > 0, and
\* token1 to token0 in every other case, whatever the token names are (a
\* wrapped-native token in the pair changes nothing).
C11_FourAmountDirection ==
    \A i \in 1..Len(logs_in) :
        (IsFourAmountLog(logs_in[i]) /\ logs_in[i].numeric)
            => /\ Cardinality(ItemsOfLog(i)) = 1
               /\ \A k \in ItemsOfLog(i) :
                    /\ ~IsErrorItem(swaps[k])
                    /\ swaps[k].direction =
                         (IF logs_in[i].args.amount0In > 0 /\ logs_in[i].args.amount1Out > 0
                          THEN "token0 to token1" ELSE "token1 to token0")
\* amount0In = 100, amount1Out = 100, amount1In = amount0Out = 0 in a pair
\* whose token0 is WETH: token0 to token1; and in the same call amount0In =
\* 100 with amount1Out = 0: token1 to token0.
C11_Witness ==
    /\ spc = "returned" /\ Len(logs_in) = 2 /\ Len(swaps) = 2
    /\ meta.is_token0_weth
    /\ logs_in[1].args = [amount0In |-> 100, amount1In |-> 0, amount0Out |-> 0,
                          amount1Out |-> 100, sender |-> "0xS"]
    /\ logs_in[1].numeric
    /\ swaps[1].direction = "token0 to token1"
    /\ IsFourAmountLog(logs_in[2]) /\ logs_in[2].numeric
    /\ logs_in[2].args.amount0In = 100 /\ logs_in[2].args.amount1Out = 0
    /\ swaps[2].direction = "token1 to token0"

\* The item(s) one log contributes, and the list a sequence of logs yields
\* when every log contributes on its own.
RECURSIVE ItemByItem(_, _)
ItemByItem(logs, m) ==
    IF logs = <<>> THEN <<>>
    ELSE ItemByItem(SubSeq(logs, 1, Len(logs) - 1), m) \o SwapsAfter(<<>>, logs[Len(logs)], m)
DecodingRaises(log) == (IsTwoAmountLog(log) \/ IsFourAmountLog(log)) /\ ~log.numeric

\* C12: a log whose decoding raises contributes exactly one item, an error
\* item with that log's transaction hash, at the log's place in the output
\* (items are in the order of their logs); every log contributes what it
\* contributes alone, whatever the other logs of the batch are; and the call
\* does not fail in the loop.
C12_DecodeErrorIsolated ==
    /\ \A i \in 1..Len(logs_in) :
        DecodingRaises(logs_in[i])
            => /\ Cardinality(ItemsOfLog(i)) = 1
               /\ \A k \in ItemsOfLog(i) :
                    /\ IsErrorItem(swaps[k])
                    /\ swaps[k].transactionHash = logs_in[i].transactionHash
    /\ \A k \in 1..(Len(swaps) - 1) : swaps[k].transactionHash < swaps[k + 1].transactionHash
    /\ swaps = ItemByItem(logs_in, meta)
    /\ logs_in # <<>> => (spc \in {"loop", "returned"} /\ s_error = NoError)
\* The first log fails to decode, the second is a two-amount swap of a WETH
\* pair: an error item with hash 1, then the swap with hash 2.
C12_Witness ==
    /\ spc = "returned" /\ Len(logs_in) = 2 /\ WethPair
    /\ DecodingRaises(logs_in[1])
    /\ IsTwoAmountLog(logs_in[2]) /\ logs_in[2].numeric
    /\ Len(swaps) = 2
    /\ IsErrorItem(swaps[1]) /\ swaps[1].transactionHash = 1
    /\ ~IsErrorItem(swaps[2]) /\ swaps[2].transactionHash = 2
    /\ swaps[2].direction \in {"BUY", "SELL"}

\* C13 as stated: a failure to load the token metadata does not make the
\* call fail (only the classification of one log is given up, and the call
\* returns its list).
C13_MetadataFailureNotFatal ==
    (s_error.type = "RuntimeError" /\ meta = <<>>) => spc \in {"loop", "returned"}

AmountFields == {"amount0", "amount1", "amount0In", "amount1In", "amount0Out", "amount1Out"}
RawOf(item, f) == logs_in[item.transactionHash].args[f]

\* C20: a raw amount of zero is rendered as the string "0" in every amount
\* field of every item, whatever the token's decimals (0, 1, 2 or 18) and
\* whatever sign handling the branch applies; never in exponent form.
C20_ZeroRendersAsZero ==
    \A k \in 1..Len(swaps) : \A f \in AmountFields \cap DOMAIN swaps[k] :
        RawOf(swaps[k], f) = 0 => swaps[k][f] = <<"0">>
\* token0 is WETH with 18 decimals: a raw amount0 of 0 is rendered "0", in a
\* two-amount log (BUY and SELL handling) and in a four-amount log.
C20_Witness ==
    /\ spc = "returned" /\ Len(swaps) = 2
    /\ meta.token0_name = "WETH" /\ meta.decimals0 = 18
    /\ IsTwoAmountLog(logs_in[1]) /\ logs_in[1].args.amount0 = 0
    /\ swaps[1].amount0 = <<"0">>
    /\ IsFourAmountLog(logs_in[2]) /\ logs_in[2].args.amount0In = 0
    /\ swaps[2].amount0In = <<"0">>

\* The plain positional expansion of n / 10^decimals for n >= 0: no exponent,
\* trailing fractional zeros and a dangling point stripped.
RECURSIVE StripTrailingZeros(_)
StripTrailingZeros(str) ==
    IF str # <<>> /\ str[Len(str)] = "0"
    THEN StripTrailingZeros(SubSeq(str, 1, Len(str) - 1))
    ELSE str
PlainExpansion(n, decimals) ==
    LET digits == Digits(n)
        padded == Zeros(Max(0, decimals + 1 - Len(digits))) \o digits
        intpart == SubSeq(padded, 1, Len(padded) - decimals)
        frac == StripTrailingZeros(SubSeq(padded, Len(padded) - decimals + 1, Len(padded)))
    IN intpart \o (IF frac = <<>> THEN <<>> ELSE <<".">> \o frac)
\* A rendered amount without its sign.
Magnitude(str) == IF str # <<>> /\ Head(str) = "-" THEN Tail(str) ELSE str
\* The decimals that scale the field f.
DecimalsOfField(f) ==
    IF f \in {"amount0", "amount0In", "amount0Out"} THEN meta.decimals0 ELSE meta.decimals1

\* C21 as stated: every rendered amount is, up to its sign, the plain
\* positional expansion of raw / 10^decimals, no digit lost, no exponent
\* form (a raw 7 with 18 decimals reads 0.000000000000000007).
C21_PlainExactScaling ==
    \A k \in 1..Len(swaps) : \A f \in AmountFields \cap DOMAIN swaps[k] :
        Magnitude(swaps[k][f]) = PlainExpansion(Abs(RawOf(swaps[k], f)), DecimalsOfField(f))

\* C26 as stated: every item of the list is an error item (error and
\* transactionHash) or a classified swap with a direction, both token names
\* and the amounts of exactly one encoding.
IsClassifiedSwap(item) ==
    /\ {"direction", "token0_name", "token1_name"} \subseteq DOMAIN item
    /\ \/ /\ {"amount0", "amount1"} \subseteq DOMAIN item
          /\ {"amount0In", "amount1In", "amount0Out", "amount1Out"} \cap DOMAIN item = {}
       \/ /\ {"amount0In", "amount1In", "amount0Out", "amount1Out"} \subseteq DOMAIN item
          /\ {"amount0", "amount1"} \cap DOMAIN item = {}
C26_ItemsAreClassified ==
    \A k \in 1..Len(swaps) :
        \/ IsErrorItem(swaps[k]) /\ "transactionHash" \in DOMAIN swaps[k]
        \/ ~IsErrorItem(swaps[k]) /\ IsClassifiedSwap(swaps[k])

(***************************************************************************)
(* Properties of the notification sink (NotifySpec).                       *)
(***************************************************************************)
\* C16 as stated: a failure of the sink, in constructing the Telegram client
\* or in sending the message, is logged and does not leave the notify
\* operation (print_swap_event_details or Notifier.notify).
C16_SinkFailureContained ==
    (/\ operation \in {"print_swap_event_details", "Notifier.notify"}
     /\ sink_failure # "none")
        => /\ npc = "returned"
           /\ n_error = NoError
           /\ console # <<>>
           /\ console[Len(console)] \in {"Failed to send Telegram notification",
                                        "Failed to send Telegram message"}

(***************************************************************************)
(* Properties of load_contract (LoadSpec).                                 *)
(***************************************************************************)
Carries(msg, text) == \E i \in 1..Len(msg) : msg[i] = text

\* C22: load_contract returns a contract only when the explorer answered
\* status "1" with a non-empty ABI (the contract is built from that ABI); an
\* explorer error status, a transport failure and an empty ABI each leave
\* the call as ValueError, carrying the explorer's message, the transport
\* error and "ABI is empty" respectively.
C22_LoadContractOutcomes ==
    /\ lpc = "returned"
        => /\ answer = "abi"
           /\ l_error = NoLoadError
           /\ l_result = [address |-> contract_address, abi |-> AbiOf(contract_address)]
    /\ lpc = "raised"
        => /\ answer \in {"api_error", "transport", "empty"}
           /\ l_result = NoContract
           /\ l_error.type = "ValueError"
           /\ answer = "api_error" => Carries(l_error.message, "Contract source code not verified")
           /\ answer = "transport" => Carries(l_error.message, "Network error")
           /\ answer = "empty" => Carries(l_error.message, "ABI is empty")
    /\ lpc = "fetching" => (answer = "none" /\ l_result = NoContract)
\* After a successful load of 0xA the explorer answers an empty ABI for 0xB:
\* ValueError with "ABI is empty", no contract.
C22_Witness ==
    /\ lpc = "raised" /\ loads > 1 /\ answer = "empty"
    /\ last_good.address = "0xA" /\ contract_address = "0xB"
    /\ l_error = Wrapped("0xB", <<"ABI is empty">>)

\* C27 as stated: between calls, once a load has succeeded, contract_address
\* and contract_abi are those of the last successful load (the non-empty ABI
\* fetched for that address); a failed load changes neither.
C27_FieldsOfLastGoodLoad ==
    (lpc \in {"returned", "raised"} /\ last_good # NoContract)
        => /\ contract_address = last_good.address
           /\ contract_abi = last_good.abi
           /\ contract_abi = AbiOf(contract_address)

(***************************************************************************)
(* Properties of the commands' preamble (Spec).                            *)
(***************************************************************************)
Echoed(line) == \E i \in 1..Len(cli_output) : cli_output[i] = line
\* A log fetch, a balance query, a delivery to the sink or a failure of the
\* command's body has happened.
Activity ==
    \/ epc # "idle" \/ windows # <<>> \/ swap_win # NoWindow
    \/ delivered # <<>> \/ transfer_events # <<>> \/ swap_events # <<>>
    \/ meta_loads > 0 \/ last_block # NoBlock \/ current_block # NoBlock
    \/ scan_activity # {} \/ error # NoError
\* The exit code of the command: 1 when an exception left it.
ExitCode == IF pc = "crashed" THEN 1 ELSE 0

\* C23: monitor and scan fetch no logs, query no balance and notify nothing
\* unless the connection check passed and the ABI loaded. When is_connected
\* is false they echo "Error: Could not connect to Base L2" and return
\* before the ABI load; when the load raises ValueError they echo "Error
\* loading contract ABI" and return; both with exit code 0.
C23_PreambleGuards ==
    /\ Activity => (Echoed("Connected to Base L2") /\ abi_loads = 1)
    /\ Echoed("Error: Could not connect to Base L2")
        => /\ pc = "exited" /\ ExitCode = 0
           /\ abi_loads = 0 /\ ~Echoed("Loading contract ABI")
           /\ ~Activity
    /\ Echoed("Error loading contract ABI")
        => /\ pc = "exited" /\ ExitCode = 0
           /\ ~Echoed("Connected to Base L2")
           /\ ~Activity
\* scan returned after the ABI load failed inside load_contract.
C23_Witness ==
    /\ command = "scan" /\ pc = "exited" /\ abi_loads = 1
    /\ cli_output = <<"Loading contract ABI", "Error loading contract ABI">>
    /\ ~Activity

====
